---- MODULE Spec2Model ----
(***************************************************************************)
(* State-machine model of hetzner-vrrp-failover: the CLI entry point       *)
(* (cli.main, cli.dry_run_validate), the engine HetznerFailover            *)
(* (failover.py) and the provider state it reads and mutates (floating-IP  *)
(* owners, per-network alias lists).                                       *)
(*                                                                         *)
(* Strings that the code takes apart (IP addresses) are sequences of       *)
(* one-character strings, so that split(), join() and ipaddress parsing    *)
(* are computed.  Python None is the empty set, a present value v is {v}.  *)
(*                                                                         *)
(* Spec covers the CLI and the class used directly, run up to MaxRuns      *)
(* times; SpecLiveCli is one live CLI invocation that the user may         *)
(* interrupt at any step; SpecTwoWriters is the class used directly in     *)
(* live mode while another invocation writes an alias list.                *)
(***************************************************************************)
EXTENDS Integers, Sequences, FiniteSets, TLC

\* ------------------------------------------------------------------ bounds
MaxRuns == 2
MaxFips == 2
MaxFailures == 1

\* ------------------------------------------------------- generic helpers
Range(s) == { s[i] : i \in DOMAIN s }

Opt(S) == { {} } \cup { {x} : x \in S }

The(o) == CHOOSE x \in o : TRUE

RECURSIVE SetToSeq(_)
SetToSeq(S) ==
  IF S = {} THEN <<>>
  ELSE LET x == CHOOSE y \in S : TRUE IN <<x>> \o SetToSeq(S \ {x})

NoDuplicates(s) == \A i, j \in DOMAIN s : i # j => s[i] # s[j]

\* ------------------------------------------------------- python str ops
RECURSIVE SplitAcc(_, _, _, _)
SplitAcc(s, sep, cur, acc) ==
  IF s = <<>> THEN Append(acc, cur)
  ELSE IF Head(s) = sep THEN SplitAcc(Tail(s), sep, <<>>, Append(acc, cur))
  ELSE SplitAcc(Tail(s), sep, Append(cur, Head(s)), acc)

\* str.split(sep)
Split(s, sep) == SplitAcc(s, sep, <<>>, <<>>)

\* sep.join(parts)
RECURSIVE Join(_, _)
Join(parts, sep) ==
  IF parts = <<>> THEN <<>>
  ELSE IF Len(parts) = 1 THEN parts[1]
  ELSE parts[1] \o <<sep>> \o Join(Tail(parts), sep)

\* list[:-1]
AllButLast(l) == IF l = <<>> THEN <<>> ELSE SubSeq(l, 1, Len(l) - 1)

\* str[:n]
Take(s, n) == IF Len(s) <= n THEN s ELSE SubSeq(s, 1, n)

DigitVal ==
  [c \in {"0", "1", "2", "3", "4", "5", "6", "7", "8", "9"} |->
     CASE c = "0" -> 0 [] c = "1" -> 1 [] c = "2" -> 2 [] c = "3" -> 3
       [] c = "4" -> 4 [] c = "5" -> 5 [] c = "6" -> 6 [] c = "7" -> 7
       [] c = "8" -> 8 [] c = "9" -> 9]

RECURSIVE DecValue(_)
DecValue(s) ==
  IF s = <<>> THEN 0 ELSE 10 * DecValue(AllButLast(s)) + DigitVal[s[Len(s)]]

\* ipaddress.IPv4Address._parse_octet: decimal digits only, at most three,
\* no leading zero, value at most 255.
IsOctet(s) ==
  /\ s # <<>>
  /\ Len(s) <= 3
  /\ \A i \in DOMAIN s : s[i] \in DOMAIN DigitVal
  /\ (Len(s) > 1 => s[1] # "0")
  /\ DecValue(s) <= 255

\* ipaddress.IPv4Address(text) succeeds
IsIPv4(s) ==
  LET parts == Split(s, ".") IN
    /\ Len(parts) = 4
    /\ \A i \in DOMAIN parts : IsOctet(parts[i])

HexDigits ==
  DOMAIN DigitVal \cup {"a", "b", "c", "d", "e", "f"}

IsHextet(s) ==
  /\ s # <<>>
  /\ Len(s) <= 4
  /\ \A i \in DOMAIN s : s[i] \in HexDigits

\* ipaddress.IPv6Address(text) succeeds, for texts in lower-case hex without
\* an embedded IPv4 tail or scope id: 8 hextets, or fewer with one "::".
IsIPv6(s) ==
  LET parts == Split(s, ":")
      n == Len(parts)
      empties == { i \in DOMAIN parts : parts[i] = <<>> }
      inner == { i \in empties : 1 < i /\ i < n }
  IN  /\ n >= 3
      /\ n <= 9
      /\ Cardinality(inner) <= 1
      /\ \A i \in DOMAIN parts \ empties : IsHextet(parts[i])
      /\ IF inner = {}
           THEN n = 8 /\ empties = {}
           ELSE /\ (1 \in empties => 2 \in inner)
                /\ (n \in empties => (n - 1) \in inner)
                /\ Cardinality(DOMAIN parts \ empties) < 8

\* ipaddress.ip_address(text).version; 0 stands for the ValueError raised
\* when the text is neither an IPv4 nor an IPv6 address.
IpVersion(s) == IF IsIPv4(s) THEN 4 ELSE IF IsIPv6(s) THEN 6 ELSE 0

\* '%x' % int(hextet, 16): leading zeros dropped
RECURSIVE StripZeros(_)
StripZeros(h) ==
  IF Len(h) > 1 /\ Head(h) = "0" THEN StripZeros(Tail(h)) ELSE h

\* ipaddress._explode: the 8 hextets of a valid IPv6 text
Hextets(s) ==
  LET parts == Split(s, ":")
      n == Len(parts)
      inner == { i \in DOMAIN parts : parts[i] = <<>> /\ 1 < i /\ i < n }
      NonEmpty(l) == SelectSeq(l, LAMBDA p : p # <<>>)
  IN  IF inner = {} THEN [i \in DOMAIN parts |-> StripZeros(parts[i])]
      ELSE LET k == CHOOSE i \in inner : TRUE
               head == NonEmpty(SubSeq(parts, 1, k - 1))
               tail == NonEmpty(SubSeq(parts, k + 1, n))
               fill == [i \in 1..(8 - Len(head) - Len(tail)) |-> <<"0">>]
               all == head \o fill \o tail
           IN  [i \in DOMAIN all |-> StripZeros(all[i])]

\* ipaddress.IPv6Address._compress_hextets followed by ':'.join: the first
\* longest run of two or more zero hextets becomes "::".
CompressHextets(h) ==
  LET n == Len(h)
      IsRun(i, j) == /\ i <= j
                     /\ \A k \in i..j : h[k] = <<"0">>
                     /\ (i > 1 => h[i - 1] # <<"0">>)
                     /\ (j < n => h[j + 1] # <<"0">>)
      runs == { r \in (1..n) \X (1..n) : IsRun(r[1], r[2]) /\ r[2] > r[1] }
  IN  IF runs = {} THEN Join(h, ":")
      ELSE LET best == CHOOSE r \in runs :
                         \A q \in runs :
                           \/ (r[2] - r[1]) > (q[2] - q[1])
                           \/ ((r[2] - r[1]) = (q[2] - q[1]) /\ r[1] <= q[1])
               pre == IF best[1] = 1 THEN << <<>> >> ELSE SubSeq(h, 1, best[1] - 1)
               post == IF best[2] = n THEN << <<>> >> ELSE SubSeq(h, best[2] + 1, n)
           IN  Join(pre \o << <<>> >> \o post, ":")

\* str(ipaddress.ip_address(text)) for a valid text
CanonicalText(s) == IF IsIPv4(s) THEN s ELSE CompressHextets(Hextets(s))

\* ------------------------------------------------------------- test data
\* Address texts ("10.0.0.100" is <<"1","0",".", ...>>).
Ip_10_0_0_5 == <<"1", "0", ".", "0", ".", "0", ".", "5">>
Ip_10_0_0_6 == <<"1", "0", ".", "0", ".", "0", ".", "6">>
Ip_10_0_1_5 == <<"1", "0", ".", "0", ".", "1", ".", "5">>
Ip_10_0_0_50 == <<"1", "0", ".", "0", ".", "0", ".", "5", "0">>
Ip_10_0_0_77 == <<"1", "0", ".", "0", ".", "0", ".", "7", "7">>

Ip_10_0_0_100 == <<"1", "0", ".", "0", ".", "0", ".", "1", "0", "0">>
Ip_10_0_0_101 == <<"1", "0", ".", "0", ".", "0", ".", "1", "0", "1">>
Ip_10_0_0_100_32 == Ip_10_0_0_100 \o <<"/", "3", "2">>
Ip_10_0_1_100 == <<"1", "0", ".", "0", ".", "1", ".", "1", "0", "0">>
Ip_192_168_9_9 == <<"1", "9", "2", ".", "1", "6", "8", ".", "9", ".", "9">>
\* "2001:db8:abcd:1234::5" and "2001:0db8:abcd:1234::64"
Ip_2001_db8_abcd_1234__5 ==
  <<"2", "0", "0", "1", ":", "d", "b", "8", ":",
    "a", "b", "c", "d", ":", "1", "2", "3", "4", ":", ":", "5">>
Ip_2001_0db8_abcd_1234__64 ==
  <<"2", "0", "0", "1", ":", "0", "d", "b", "8", ":",
    "a", "b", "c", "d", ":", "1", "2", "3", "4", ":", ":", "6", "4">>
\* "bogus": not an address
NotAnAddress == <<"b", "o", "g", "u", "s">>

\* Server ids: the metadata service answers 12345; 67890 is another node.
MetadataIds == {12345}
ServerIds == MetadataIds \cup {67890}

\* --fake-server-id values (argparse type=int)
FakeIds == {0, 99999}

\* Provider floating IPs: 1..MaxFips carry role=vrrp, one more carries
\* another label and belongs to the other node.
FipIds == 1..(MaxFips + 1)
FipLabels(id) ==
  IF id <= MaxFips THEN { <<"role", "vrrp">> } ELSE { <<"role", "other">> }

\* Private-network attachments of this server: <<network id, own ip>>.
NetLayouts ==
  { <<>>,
    << [network |-> 1, ip |-> Ip_10_0_0_5] >>,
    << [network |-> 1, ip |-> Ip_10_0_0_5], [network |-> 2, ip |-> Ip_10_0_1_5] >>,
    << [network |-> 1, ip |-> Ip_10_0_0_5], [network |-> 3, ip |-> Ip_10_0_0_6] >>,
    << [network |-> 4, ip |-> Ip_2001_db8_abcd_1234__5],
       [network |-> 1, ip |-> Ip_10_0_0_5] >> }
Networks == {1, 2, 3, 4}

\* Alias lists a network may hold before the program runs.
ExistingAliasLists(n) ==
  IF n = 1 THEN { <<>>, <<Ip_10_0_0_50, Ip_10_0_0_100>> } ELSE { <<>> }

\* alias_ips lists of the configuration file
AliasConfigs ==
  { <<>>,
    <<Ip_10_0_0_100>>,
    <<Ip_10_0_0_100_32>>,
    <<Ip_10_0_0_100, Ip_10_0_1_100>>,
    <<Ip_10_0_0_101, Ip_192_168_9_9>>,
    <<Ip_192_168_9_9>>,
    <<Ip_10_0_0_100, NotAnAddress>>,
    <<Ip_2001_0db8_abcd_1234__64, Ip_10_0_0_100>> }

LabelConfigs == { {}, { <<"role", "vrrp">> } }

\* A configuration file as Config._load_config and Config._validate see it.
GoodFile(labels, aliases) ==
  [exists |-> TRUE, yaml |-> "mapping", token |-> {"test_token"},
   log_level |-> {}, floating_ip_labels |-> labels, alias_ips |-> aliases]

BadFiles ==
  { [GoodFile({}, <<>>) EXCEPT !.exists = FALSE],
    [GoodFile({}, <<>>) EXCEPT !.yaml = "invalid"],
    [GoodFile({}, <<>>) EXCEPT !.yaml = "none"],
    [GoodFile({}, <<>>) EXCEPT !.token = {}],
    [GoodFile({}, <<>>) EXCEPT !.token = {""}],
    [GoodFile({}, <<>>) EXCEPT !.log_level = {"verbose"}] }

\* Files that declare both labels and aliases use one of these alias lists.
AliasConfigsWithLabels == { <<Ip_10_0_0_100>>, <<Ip_192_168_9_9>> }

ConfigFiles ==
  { GoodFile({}, a) : a \in AliasConfigs }
    \cup { GoodFile(l, <<>>) : l \in LabelConfigs }
    \cup { GoodFile(l, a) : l \in LabelConfigs \ {{}}, a \in AliasConfigsWithLabels }
    \cup { [GoodFile({}, <<>>) EXCEPT !.log_level = {"debug"}] }
    \cup BadFiles

\* ------------------------------------------------------------ config.py
Upper(t) ==
  CASE t = "debug" -> "DEBUG" [] t = "info" -> "INFO" [] t = "verbose" -> "VERBOSE"
    [] OTHER -> t

\* Mutant: every file is accepted.
ConfigError_Never(f) == {}

\* Config.__init__: the ConfigError raised, {} when the file loads.
ConfigError(f) ==
  IF ~f.exists THEN {"Config file not found"}
  ELSE IF f.yaml = "invalid" THEN {"Invalid YAML in config file"}
  ELSE IF f.yaml = "none" THEN {"Failed to read config file"}
  ELSE IF f.token = {} \/ f.token = {""} THEN {"Required field missing in config"}
  ELSE IF Upper(IF f.log_level = {} THEN "INFO" ELSE The(f.log_level))
            \notin {"DEBUG", "INFO", "WARNING", "ERROR", "CRITICAL"}
    THEN {"Invalid log_level"}
  ELSE {}

\* ----------------------------------------------------------- metadata.py
\* What the metadata service does with GET .../instance-id: it answers a
\* numeric body, does not answer in time, answers an HTTP error (or the
\* connection fails), or answers a body that is not a number.
MetadataResponses == {"numeric", "timeout", "http_error", "non_numeric"}

\* MetadataService.get_server_id: the MetadataError raised, {} when the
\* server id is returned.
MetadataError(resp) ==
  CASE resp = "timeout" -> {"Timeout connecting to metadata service"}
    [] resp = "http_error" -> {"Failed to connect to metadata service"}
    [] resp = "non_numeric" -> {"Invalid server ID from metadata service"}
    [] OTHER -> {}

\* --------------------------------------------------------------- cli.py
\* Python truth value of an optional int
Truthy(o) == o # {} /\ The(o) # 0

\* cli.main: `args.fake_server_id and not args.dry_run`
FakeWithoutDryRun(a) == Truthy(a.fake_server_id) /\ ~a.dry_run

\* cli.main: `if args.fake_server_id:` a mock metadata service is used
UsesFakeMetadata(a) == Truthy(a.fake_server_id)

\* Mutant: the report flags only floating IPs assigned to another server.
NeedsAssignment_OnlyForeign(fip, sid) == fip.server # {} /\ The(fip.server) # sid

\* cli.dry_run_validate: does the report flag this floating IP?
NeedsAssignment(fip, sid) ==
  IF fip.server # {} THEN The(fip.server) # sid ELSE TRUE

\* ----------------------------------------------------------- failover.py
\* Mutant: the ownership test never succeeds.
AlreadyAssigned_Never(fip, sid) == FALSE

\* assign_all_floating_ips: `fip.server and fip.server.id == self.server_id`
AlreadyAssigned(fip, sid) == fip.server # {} /\ The(fip.server) = sid

\* Mutant: the empty-selector check is missing.
NoLabels_Never(labels) == FALSE

\* get_floating_ips_by_labels: `if not labels: return []`
NoLabels(labels) == labels = {}

\* floating_ips.get_all(label_selector=labels) on the provider: every
\* key/value pair of the selector is among the floating IP's labels.
LabelsMatch(selector, labels) == selector \subseteq labels

\* Mutant: the provider accepts the call and leaves the owner as it was.
AssignTo_Nothing(owner, id, sid) == owner

\* assign_floating_ip: `floating_ip.assign(self.server)`, the provider makes
\* this server the owner of the floating IP
AssignTo(owner, id, sid) == [owner EXCEPT ![id] = sid]

\* Mutant: the dry-run guards are missing.
SkipsMutation_Never(dry) == FALSE

\* assign_floating_ip / assign_alias_ips: `if self.dry_run:` guards
SkipsMutation(dry) == dry

\* Mutant: the private-network check is missing.
NoPrivateNet_Never(server) == FALSE

\* assign_alias_ips: `if not server.private_net:`
NoPrivateNet(server) == server.private_net = <<>>

\* Mutant: the handler of the alias phase swallows the exception.
ExceptInAliasPhase_Swallowed(exc) == [returned |-> TRUE, logged |-> {}]

\* assign_alias_ips, lines 268-273: the `except Exception` around the whole
\* phase logs the error and returns False, whatever was raised (the
\* HetznerAPIError of the server lookup, the ValueError of ip_address(), the
\* exception of change_alias_ips)
ExceptInAliasPhase(exc) == [returned |-> FALSE, logged |-> {"Failed to assign alias IPs"}]

\* Mutant: only the first two octets are compared.
Prefix24_TwoOctets(text) == Join(AllButLast(AllButLast(Split(text, "."))), ".")

\* assign_alias_ips, IPv4 branch: '.'.join(text.split('.')[:-1])
Prefix24(text) == Join(AllButLast(Split(text, ".")), ".")

\* assign_alias_ips, one pass of the inner loop for one alias: the index of
\* the first membership it matches (0: none); raised when ip_address()
\* raises ValueError.
RECURSIVE MatchFrom(_, _, _)
MatchFrom(alias_ip, private_net, k) ==
  IF k > Len(private_net) THEN [raised |-> FALSE, idx |-> 0]
  ELSE LET sv == IpVersion(private_net[k].ip)
           av == IpVersion(alias_ip)
       IN  IF sv = 0 \/ av = 0 THEN [raised |-> TRUE, idx |-> 0]
           ELSE IF sv = av /\ sv = 4
                   /\ Prefix24(private_net[k].ip) = Prefix24(alias_ip)
             THEN [raised |-> FALSE, idx |-> k]
           ELSE IF sv = av /\ sv = 6
                   /\ Take(CanonicalText(private_net[k].ip), 19)
                        = Take(CanonicalText(alias_ip), 19)
             THEN [raised |-> FALSE, idx |-> k]
           ELSE MatchFrom(alias_ip, private_net, k + 1)

MatchNetwork(alias_ip, private_net) == MatchFrom(alias_ip, private_net, 1)

\* network_aliases.setdefault(network, []).append(alias_ip), the dict kept
\* as a sequence of [network, aliases] in insertion order
AddToGroup(groups, network, alias_ip) ==
  IF \E i \in DOMAIN groups : groups[i].network = network
    THEN [i \in DOMAIN groups |->
            IF groups[i].network = network
              THEN [groups[i] EXCEPT !.aliases = Append(@, alias_ip)]
              ELSE groups[i]]
    ELSE Append(groups, [network |-> network, aliases |-> <<alias_ip>>])

\* assign_alias_ips: the grouping loop over the declared aliases
RECURSIVE GroupFrom(_, _, _, _)
GroupFrom(alias_ips, private_net, i, acc) ==
  IF acc.raised \/ i > Len(alias_ips) THEN acc
  ELSE LET m == MatchNetwork(alias_ips[i], private_net) IN
         IF m.raised THEN [acc EXCEPT !.raised = TRUE]
         ELSE IF m.idx = 0
           THEN GroupFrom(alias_ips, private_net, i + 1,
                          [acc EXCEPT !.unmatched = Append(@, alias_ips[i])])
         ELSE GroupFrom(alias_ips, private_net, i + 1,
                        [acc EXCEPT !.groups =
                           AddToGroup(@, private_net[m.idx].network, alias_ips[i])])

GroupAliases(alias_ips, private_net) ==
  GroupFrom(alias_ips, private_net, 1,
            [raised |-> FALSE, groups |-> <<>>, unmatched |-> <<>>])

\* Mutant: the phase fails as soon as one declared alias is unmatched.
NothingMatched_AnyUnmatched(g) == g.unmatched # <<>>

\* assign_alias_ips, line 227: `if not network_aliases:`
NothingMatched(g) == g.groups = <<>>

\* assign_alias_ips: current aliases of a network in the server object
CurrentAliases(private_net, network) ==
  LET hits == { k \in DOMAIN private_net : private_net[k].network = network } IN
    IF hits = {} THEN <<>>
    ELSE private_net[CHOOSE k \in hits : \A q \in hits : k <= q].alias_ips

\* Mutant: the declared aliases replace the current ones.
MergeAliases_Replace(current, to_add) == SetToSeq(Range(to_add))

\* all_aliases = list(set(current_aliases + aliases_to_add))
MergeAliases(current, to_add) == SetToSeq(Range(current \o to_add))

\* new_aliases = set(all_aliases) - set(current_aliases)
NewAliases(all, current) == Range(all) \ Range(current)

\* ---------------------------------------------------------------- state
VARIABLES
  args,             \* parsed command line: dry_run, fake_server_id
  configFile,       \* the configuration file on disk
  entry,            \* "cli": cli.main is run; "lib": the class is used directly
  privateNets,      \* provider: this server's network attachments
  fipOwner,         \* provider: floating IP id -> owner ({} = unassigned)
  netAliases,       \* provider: network id -> alias list of this server
  pc,               \* position of the running invocation
  run,              \* number of the current invocation
  config,           \* {} or {loaded Config}
  server_id,        \* HetznerFailover.server_id, {} before construction
  dry_run,          \* HetznerFailover.dry_run
  server_cache,     \* HetznerFailover._server: {} or {server object}
  floating_ips,     \* assign_all_floating_ips: the listing being processed
  idx,              \* assign_all_floating_ips: loop position
  success,          \* assign_all_floating_ips: local `success`
  floating_success, \* execute_failover: {} or {result of the first phase}
  alias_success,    \* execute_failover: {} or {result of the second phase}
  groups,           \* assign_alias_ips: network_aliases
  gidx,             \* assign_alias_ips: position in network_aliases.items()
  needs_assignment, \* dry_run_validate: {} or {the reported list}
  calls,            \* history: calls made on collaborators, in order
  log,              \* history: messages logged or printed, with their run
  retvals,          \* history: outcome of every execute_failover
  exitCode,         \* {} or {exit code of the last cli.main}
  failures,         \* number of collaborator calls that have failed so far
  initial           \* history: the provider state before the first run

provider == <<fipOwner, netAliases>>
env == <<args, configFile, entry, privateNets, initial>>
engine == <<config, server_id, dry_run, server_cache>>
locals == <<floating_ips, idx, success, floating_success, alias_success, groups, gidx>>
history == <<calls, log, retvals>>
vars == <<env, provider, pc, run, engine, locals, needs_assignment, history, exitCode,
          failures>>

TypeOK ==
  /\ args \in [dry_run : BOOLEAN, fake_server_id : Opt(FakeIds)]
  /\ configFile \in ConfigFiles
  /\ entry \in {"cli", "lib"}
  /\ privateNets \in NetLayouts
  /\ fipOwner \in [FipIds -> Opt(ServerIds \cup FakeIds)]
  /\ DOMAIN netAliases = Networks
  /\ pc \in {"main", "load_config", "construct", "dry_run_validate", "fip_list",
             "fip_loop", "alias", "alias_loop", "finish", "returned", "raised",
             "exit"}
  /\ run \in 1..MaxRuns
  /\ server_id \in Opt(ServerIds \cup FakeIds)
  /\ dry_run \in BOOLEAN
  /\ success \in BOOLEAN
  /\ floating_success \in Opt(BOOLEAN)
  /\ alias_success \in Opt(BOOLEAN)
  /\ exitCode \in Opt({0, 1, 130})

\* The server object servers.get_by_id returns: the attachments with the
\* alias list each network holds at the time of the call.
ServerObject ==
  [private_net |->
     [k \in DOMAIN privateNets |->
        [network |-> privateNets[k].network, ip |-> privateNets[k].ip,
         alias_ips |-> netAliases[privateNets[k].network]]]]

\* What floating_ips.get_all answers for a selector, in id order.
Listing(selector) ==
  LET ids == { id \in FipIds : LabelsMatch(selector, FipLabels(id)) }
      RECURSIVE Asc(_)
      Asc(S) == IF S = {} THEN <<>>
                ELSE LET m == CHOOSE x \in S : \A y \in S : x <= y
                     IN  <<[id |-> m, server |-> fipOwner[m]]>> \o Asc(S \ {m})
  IN  Asc(ids)

\* One call on a collaborator; `was` is the alias list the provider held
\* when a change_alias_ips call arrived.
Call(op, id, arg, ok) ==
  [run |-> run, op |-> op, id |-> id, arg |-> arg, ok |-> ok, was |-> <<>>]
Mutating(c) == c.op \in {"assign", "change_alias_ips"}
CallsOf(r) == SelectSeq(calls, LAMBDA c : c.run = r)
MutatingCallsOf(r) == SelectSeq(calls, LAMBDA c : c.run = r /\ Mutating(c))
Logged(r, msg) == <<r, msg>> \in log
Say(msgs) == log \cup { <<run, m>> : m \in msgs }

FreshLocals ==
  /\ floating_ips = <<>>
  /\ idx = 0
  /\ success = TRUE
  /\ floating_success = {}
  /\ alias_success = {}
  /\ groups = <<>>
  /\ gidx = 0

ResetLocals ==
  /\ floating_ips' = <<>>
  /\ idx' = 0
  /\ success' = TRUE
  /\ floating_success' = {}
  /\ alias_success' = {}
  /\ groups' = <<>>
  /\ gidx' = 0

Init ==
  /\ entry \in {"cli", "lib"}
  /\ args \in [dry_run : BOOLEAN, fake_server_id : Opt(FakeIds)]
  /\ configFile \in ConfigFiles
  /\ entry = "lib" => (args.fake_server_id = {} /\ ConfigError(configFile) = {})
  \* command lines with --fake-server-id use the files that declare one
  \* kind of resource
  /\ args.fake_server_id # {} =>
       (configFile.floating_ip_labels = {} \/ configFile.alias_ips = <<>>)
  /\ privateNets \in NetLayouts
  /\ fipOwner \in [FipIds -> Opt(ServerIds)]
  /\ fipOwner[MaxFips + 1] = {67890}
  \* provider state that the configuration never looks at is kept fixed
  /\ configFile.floating_ip_labels = {} => \A id \in FipIds : fipOwner[id] = {67890}
  /\ configFile.alias_ips = <<>> => Len(privateNets) = 1
  \* files that declare both kinds of resource are run on servers with at
  \* most one attachment
  /\ (configFile.floating_ip_labels # {} /\ configFile.alias_ips # <<>>) =>
       Len(privateNets) <= 1
  /\ netAliases \in [Networks -> UNION { ExistingAliasLists(n) : n \in Networks }]
  /\ \A n \in Networks :
       IF \E k \in DOMAIN privateNets : privateNets[k].network = n
         THEN netAliases[n] \in ExistingAliasLists(n)
         ELSE netAliases[n] = <<>>
  /\ pc = IF entry = "cli" THEN "main" ELSE "construct"
  /\ run = 1
  /\ config = IF entry = "cli" THEN {} ELSE {configFile}
  /\ server_id = {}
  /\ dry_run = FALSE
  /\ server_cache = {}
  /\ FreshLocals
  /\ needs_assignment = {}
  /\ calls = <<>>
  /\ log = {}
  /\ retvals = <<>>
  /\ exitCode = {}
  /\ failures = 0
  /\ initial = [fipOwner |-> fipOwner, netAliases |-> netAliases]

\* A collaborator call may fail while the failure budget lasts.
Outcomes == IF failures < MaxFailures THEN {TRUE, FALSE} ELSE {TRUE}
Count(ok) == failures' = IF ok THEN failures ELSE failures + 1

\* An exception that leaves HetznerFailover: cli.main turns it into exit
\* code 1; a direct caller of the class sees it raised.
Propagate ==
  IF entry = "cli" THEN pc' = "exit" /\ exitCode' = {1}
  ELSE pc' = "raised" /\ exitCode' = exitCode

\* ------------------------------------------------------------- cli.main
\* main, lines 132-138: the --fake-server-id check
MainCheckArgs ==
  /\ pc = "main"
  /\ IF FakeWithoutDryRun(args)
       THEN /\ log' = Say({"Error: --fake-server-id can only be used with --dry-run"})
            /\ exitCode' = {1}
            /\ pc' = "exit"
       ELSE /\ pc' = "load_config"
            /\ UNCHANGED <<log, exitCode>>
  /\ UNCHANGED <<env, provider, run, engine, locals, needs_assignment, calls, retvals,
                 failures>>

\* main, line 142: Config(args.config)
LoadConfig ==
  /\ pc = "load_config"
  /\ calls' = Append(calls, Call("Config", 0, <<>>, ConfigError(configFile) = {}))
  /\ IF ConfigError(configFile) = {}
       THEN /\ config' = {configFile}
            /\ pc' = "construct"
            /\ UNCHANGED <<log, exitCode>>
       ELSE /\ log' = Say(ConfigError(configFile))
            /\ exitCode' = {1}
            /\ pc' = "exit"
            /\ UNCHANGED config
  /\ UNCHANGED <<env, provider, run, server_id, dry_run, server_cache, locals,
                 needs_assignment, retvals, failures>>

\* main, lines 145-160 with HetznerFailover.__init__: the metadata lookup
Construct ==
  /\ pc = "construct"
  /\ \E ok \in (IF entry = "cli" /\ UsesFakeMetadata(args) THEN {TRUE} ELSE Outcomes) :
     \E id \in (IF entry = "cli" /\ UsesFakeMetadata(args)
                  THEN args.fake_server_id ELSE MetadataIds) :
     \E resp \in { r \in MetadataResponses : (MetadataError(r) = {}) = ok } :
       /\ Count(ok)
       /\ calls' = Append(calls, Call("get_server_id", id, <<resp>>, ok))
       /\ IF ok
            THEN /\ server_id' = {id}
                 /\ dry_run' = args.dry_run
                 /\ server_cache' = {}
                 /\ pc' = IF entry = "cli" /\ args.dry_run
                            THEN "dry_run_validate" ELSE "fip_list"
                 /\ UNCHANGED <<log, exitCode>>
            ELSE /\ log' = Say(MetadataError(resp))
                 /\ Propagate
                 /\ UNCHANGED <<server_id, dry_run, server_cache>>
  /\ UNCHANGED <<env, provider, run, config, locals, needs_assignment, retvals>>

\* cli.dry_run_validate
DryRunValidate ==
  /\ pc = "dry_run_validate"
  /\ LET labels == The(config).floating_ip_labels IN
     IF NoLabels(labels)
       THEN /\ needs_assignment' = {<<>>}
            /\ log' = Say({"No floating_ip_labels configured",
                           "All floating IPs already correctly assigned"})
            /\ exitCode' = {0}
            /\ UNCHANGED <<calls, failures>>
       ELSE \E ok \in Outcomes :
              /\ Count(ok)
              /\ calls' = Append(calls, Call("get_all", 0, <<>>, ok))
              /\ IF ok
                   THEN LET fips == Listing(labels)
                            need == SelectSeq(fips,
                                      LAMBDA f : NeedsAssignment(f, The(server_id)))
                        IN  /\ needs_assignment' = {[i \in DOMAIN need |-> need[i].id]}
                            /\ log' = Say(IF need # <<>>
                                            THEN {"floating IP(s) need to be assigned"}
                                            ELSE {"All floating IPs already correctly assigned"})
                            /\ exitCode' = {0}
                   ELSE /\ log' = Say({"Failed to get floating IPs"})
                        /\ exitCode' = {1}
                        /\ UNCHANGED needs_assignment
  /\ pc' = "exit"
  /\ UNCHANGED <<env, provider, run, engine, locals, retvals>>

\* ------------------------------------------------ HetznerFailover.server
\* The `server` property: the cached object, or one servers.get_by_id call.
\* lookup is the outcome of that call (TRUE when the cache answers).
NeedsLookup == server_cache = {}
LookupOutcomes == IF NeedsLookup THEN Outcomes ELSE {TRUE}
LookupCalls(lookup) ==
  IF NeedsLookup THEN <<Call("get_by_id", The(server_id), <<>>, lookup)>> ELSE <<>>
ServerAfter(lookup) ==
  IF ~NeedsLookup THEN server_cache ELSE IF lookup THEN {ServerObject} ELSE {}

\* -------------------------------------------- assign_all_floating_ips
\* get_floating_ips_by_labels and lines 125-131
GetFloatingIps ==
  /\ pc = "fip_list"
  /\ LET labels == The(config).floating_ip_labels IN
     IF NoLabels(labels)
       THEN /\ log' = Say({"No floating_ip_labels configured",
                           "No floating IPs found to assign"})
            /\ floating_success' = {TRUE}
            /\ pc' = "alias"
            /\ UNCHANGED <<calls, failures, floating_ips, idx, retvals, exitCode>>
       ELSE \E ok \in Outcomes :
              /\ Count(ok)
              /\ calls' = Append(calls, Call("get_all", 0, <<>>, ok))
              /\ IF ok
                   THEN /\ IF Listing(labels) = <<>>
                             THEN /\ log' = Say({"No floating IPs found to assign"})
                                  /\ floating_success' = {TRUE}
                                  /\ pc' = "alias"
                                  /\ UNCHANGED <<floating_ips, idx>>
                             ELSE /\ floating_ips' = Listing(labels)
                                  /\ idx' = 1
                                  /\ pc' = "fip_loop"
                                  /\ UNCHANGED <<log, floating_success>>
                        /\ UNCHANGED <<retvals, exitCode>>
                   ELSE /\ log' = Say({"Failed to get floating IPs"})
                        /\ retvals' = Append(retvals,
                             [run |-> run, floating |-> {}, alias |-> {}, ret |-> {}])
                        /\ Propagate
                        /\ UNCHANGED <<floating_ips, idx, floating_success>>
  /\ UNCHANGED <<env, provider, run, engine, success, alias_success, groups, gidx,
                 needs_assignment>>

\* Mutant: the loop stops at the first failed assignment.
NextFip_StopOnFailure(ok) ==
  /\ success' = ok
  /\ IF idx = Len(floating_ips) \/ ~ok
       THEN /\ floating_success' = {ok}
            /\ pc' = "alias"
            /\ idx' = idx
       ELSE /\ idx' = idx + 1
            /\ UNCHANGED <<floating_success, pc>>

\* End of one pass of the loop at lines 132-143 with local `success` = ok.
NextFip(ok) ==
  /\ success' = ok
  /\ IF idx = Len(floating_ips)
       THEN /\ floating_success' = {ok}
            /\ pc' = "alias"
            /\ idx' = idx
       ELSE /\ idx' = idx + 1
            /\ UNCHANGED <<floating_success, pc>>

\* Mutant: an IP skipped as already assigned counts as a failure.
FipSkip_CountsAsFailure ==
  /\ pc = "fip_loop"
  /\ AlreadyAssigned(floating_ips[idx], The(server_id))
  /\ log' = Say({"already assigned to this server"})
  /\ NextFip(FALSE)
  /\ UNCHANGED <<env, provider, run, engine, floating_ips, alias_success, groups, gidx,
                 needs_assignment, calls, retvals, exitCode, failures>>

\* lines 134-140: the floating IP already belongs to this server
FipSkip ==
  /\ pc = "fip_loop"
  /\ AlreadyAssigned(floating_ips[idx], The(server_id))
  /\ log' = Say({"already assigned to this server"})
  /\ NextFip(success)
  /\ UNCHANGED <<env, provider, run, engine, floating_ips, alias_success, groups, gidx,
                 needs_assignment, calls, retvals, exitCode, failures>>

\* assign_floating_ip in dry-run mode, lines 98-103
FipDryRun ==
  /\ pc = "fip_loop"
  /\ ~AlreadyAssigned(floating_ips[idx], The(server_id))
  /\ SkipsMutation(dry_run)
  /\ log' = Say({"[DRY RUN] Would assign floating IP"})
  /\ NextFip(success)
  /\ UNCHANGED <<env, provider, run, engine, floating_ips, alias_success, groups, gidx,
                 needs_assignment, calls, retvals, exitCode, failures>>

\* assign_floating_ip, lines 105-116: server lookup, then FloatingIP.assign
FipAssign ==
  /\ pc = "fip_loop"
  /\ ~AlreadyAssigned(floating_ips[idx], The(server_id))
  /\ ~SkipsMutation(dry_run)
  /\ \E lookup \in LookupOutcomes :
       IF ~lookup
         THEN /\ Count(FALSE)
              /\ calls' = calls \o LookupCalls(FALSE)
              /\ log' = Say({"Failed to assign floating IP"})
              /\ NextFip(FALSE)
              /\ UNCHANGED <<fipOwner, server_cache>>
         ELSE \E ok \in Outcomes :
                /\ Count(ok)
                /\ server_cache' = ServerAfter(TRUE)
                /\ calls' = calls \o LookupCalls(TRUE)
                              \o <<Call("assign", floating_ips[idx].id, <<>>, ok)>>
                /\ IF ok
                     THEN /\ fipOwner' = AssignTo(fipOwner, floating_ips[idx].id, server_id)
                          /\ log' = Say({"Successfully assigned floating IP"})
                          /\ NextFip(success)
                     ELSE /\ log' = Say({"Failed to assign floating IP"})
                          /\ NextFip(FALSE)
                          /\ UNCHANGED fipOwner
  /\ UNCHANGED <<env, netAliases, run, config, server_id, dry_run, floating_ips,
                 alias_success, groups, gidx, needs_assignment, retvals, exitCode>>

\* ------------------------------------------------------ assign_alias_ips
\* lines 154-158: nothing declared
AliasNone ==
  /\ pc = "alias"
  /\ The(config).alias_ips = <<>>
  /\ log' = Say({"No alias IPs configured"})
  /\ alias_success' = {TRUE}
  /\ pc' = "finish"
  /\ UNCHANGED <<env, provider, run, engine, floating_ips, idx, success,
                 floating_success, groups, gidx, needs_assignment, calls, retvals,
                 exitCode, failures>>

\* lines 160-231: server lookup, the private-network check and the grouping
\* of the declared aliases by network
AliasPrepare ==
  /\ pc = "alias"
  /\ The(config).alias_ips # <<>>
  /\ \E lookup \in LookupOutcomes :
       /\ Count(lookup)
       /\ calls' = calls \o LookupCalls(lookup)
       /\ server_cache' = ServerAfter(lookup)
       /\ IF ~lookup
            THEN /\ log' = Say(ExceptInAliasPhase("HetznerAPIError").logged)
                 /\ alias_success' = {ExceptInAliasPhase("HetznerAPIError").returned}
                 /\ pc' = "finish"
                 /\ UNCHANGED <<groups, gidx>>
            ELSE LET server == The(ServerAfter(lookup))
                     g == GroupAliases(The(config).alias_ips, server.private_net)
                 IN  IF NoPrivateNet(server)
                       THEN /\ log' = Say({"No private networks attached to server"})
                            /\ alias_success' = {FALSE}
                            /\ pc' = "finish"
                            /\ UNCHANGED <<groups, gidx>>
                     ELSE IF g.raised
                       THEN /\ log' = Say(ExceptInAliasPhase("ValueError").logged)
                            /\ alias_success' = {ExceptInAliasPhase("ValueError").returned}
                            /\ pc' = "finish"
                            /\ UNCHANGED <<groups, gidx>>
                     ELSE IF NothingMatched(g)
                       THEN /\ log' = Say({"Could not match alias IPs to networks",
                                           "No alias IPs could be matched"})
                            /\ alias_success' = {FALSE}
                            /\ pc' = "finish"
                            /\ UNCHANGED <<groups, gidx>>
                     ELSE /\ log' = Say(IF g.unmatched # <<>>
                                          THEN {"Could not match alias IPs to networks"}
                                          ELSE {})
                          /\ groups' = g.groups
                          /\ gidx' = 1
                          /\ pc' = "alias_loop"
                          /\ UNCHANGED alias_success
  /\ UNCHANGED <<env, provider, run, config, server_id, dry_run, floating_ips, idx,
                 success, floating_success, needs_assignment, retvals, exitCode>>

\* The merged list and the delta computed for the current network group.
GroupCurrent == CurrentAliases(The(server_cache).private_net, groups[gidx].network)
GroupAll == MergeAliases(GroupCurrent, groups[gidx].aliases)
GroupNew == NewAliases(GroupAll, GroupCurrent)

\* End of one pass of the loop at lines 234-264.
NextGroup ==
  IF gidx = Len(groups)
    THEN /\ alias_success' = {TRUE}
         /\ pc' = "finish"
         /\ gidx' = gidx
    ELSE /\ gidx' = gidx + 1
         /\ UNCHANGED <<alias_success, pc>>

\* lines 246-255: dry run only reports the delta
AliasDryRun ==
  /\ pc = "alias_loop"
  /\ SkipsMutation(dry_run)
  /\ log' = Say(IF GroupNew # {} THEN {"[DRY RUN] Would add aliases"}
                ELSE {"[DRY RUN] Aliases already configured"})
  /\ NextGroup
  /\ UNCHANGED <<env, provider, run, engine, floating_ips, idx, success,
                 floating_success, groups, needs_assignment, calls, retvals, exitCode,
                 failures>>

\* lines 257-264 and 268-273: servers.change_alias_ips for the group; a
\* failure is an exception that ends the phase
AliasChange ==
  /\ pc = "alias_loop"
  /\ ~SkipsMutation(dry_run)
  /\ \E ok \in Outcomes :
       /\ Count(ok)
       /\ calls' = Append(calls,
            [Call("change_alias_ips", groups[gidx].network, GroupAll, ok)
               EXCEPT !.was = netAliases[groups[gidx].network]])
       /\ IF ok
            THEN /\ netAliases' = [netAliases EXCEPT ![groups[gidx].network] = GroupAll]
                 /\ log' = Say({"Successfully assigned aliases to network"})
                 /\ NextGroup
            ELSE /\ log' = Say(ExceptInAliasPhase("APIException").logged)
                 /\ alias_success' = {ExceptInAliasPhase("APIException").returned}
                 /\ pc' = "finish"
                 /\ UNCHANGED <<netAliases, gidx>>
  /\ UNCHANGED <<env, fipOwner, run, engine, floating_ips, idx, success,
                 floating_success, groups, needs_assignment, retvals, exitCode>>

\* ----------------------------------------------------- execute_failover
\* lines 292-309, and cli.main line 162
AndOutcome(floating, alias) == floating /\ alias

ExecuteReturn ==
  /\ pc = "finish"
  /\ LET ret == AndOutcome(The(floating_success), The(alias_success)) IN
       /\ retvals' = Append(retvals,
            [run |-> run, floating |-> floating_success, alias |-> alias_success,
             ret |-> {ret}])
       /\ log' = Say(IF ret THEN {"Failover completed successfully"}
                     ELSE {"Failover completed with errors"})
       /\ IF entry = "cli"
            THEN pc' = "exit" /\ exitCode' = {IF ret THEN 0 ELSE 1}
            ELSE pc' = "returned" /\ exitCode' = exitCode
  /\ UNCHANGED <<env, provider, run, engine, locals, needs_assignment, calls, failures>>

\* ------------------------------------------------------- repeated runs
\* The program is started again with the same command line and file.
Reinvoke ==
  /\ pc = "exit"
  /\ run < MaxRuns
  /\ run' = run + 1
  /\ pc' = "main"
  /\ config' = {}
  /\ server_id' = {}
  /\ dry_run' = FALSE
  /\ server_cache' = {}
  /\ ResetLocals
  /\ needs_assignment' = {}
  /\ exitCode' = {}
  /\ UNCHANGED <<env, provider, history, failures>>

\* execute_failover is called again on the same HetznerFailover object.
Rerun ==
  /\ pc \in {"returned", "raised"}
  /\ server_id # {}
  /\ run < MaxRuns
  /\ run' = run + 1
  /\ pc' = "fip_list"
  /\ ResetLocals
  /\ UNCHANGED <<env, provider, engine, needs_assignment, history, exitCode, failures>>

Next ==
  \/ MainCheckArgs
  \/ LoadConfig
  \/ Construct
  \/ DryRunValidate
  \/ GetFloatingIps
  \/ FipSkip
  \/ FipDryRun
  \/ FipAssign
  \/ AliasNone
  \/ AliasPrepare
  \/ AliasDryRun
  \/ AliasChange
  \/ ExecuteReturn
  \/ Reinvoke
  \/ Rerun

Spec == Init /\ [][Next]_vars

\* ------------------------------------------------------ user interrupt
\* Mutant: the handlers catch BaseException.
ExceptExceptionCatches_All(exc) == TRUE

\* The `except Exception` clauses (config.py:47, failover.py:56, 82, 114,
\* 268): KeyboardInterrupt derives from BaseException, not from Exception.
ExceptExceptionCatches(exc) == exc # "KeyboardInterrupt"

\* cli.main, lines 164-172: the exit code for an exception that reaches main
MainExitCode(exc) ==
  IF exc \in {"HetznerAPIError", "ConfigError", "MetadataError"} THEN 1
  ELSE IF exc = "KeyboardInterrupt" THEN 130
  ELSE 1

\* Is the statement about to run at pc enclosed by an `except Exception`
\* handler?
InsideExceptException ==
  \/ pc = "load_config"
  \/ pc \in {"fip_list", "dry_run_validate"} /\ ~NoLabels(The(config).floating_ip_labels)
  \/ pc = "fip_loop" /\ ~AlreadyAssigned(floating_ips[idx], The(server_id))
  \/ pc = "alias" /\ The(config).alias_ips # <<>>
  \/ pc = "alias_loop"

\* The mutating call the step at pc makes, <<>> if it makes none.
PendingMutation ==
  IF pc = "fip_loop" /\ ~AlreadyAssigned(floating_ips[idx], The(server_id))
     /\ ~SkipsMutation(dry_run)
    THEN <<Call("assign", floating_ips[idx].id, <<>>, FALSE)>>
  ELSE IF pc = "alias_loop" /\ ~SkipsMutation(dry_run)
    THEN <<[Call("change_alias_ips", groups[gidx].network, GroupAll, FALSE)
              EXCEPT !.was = netAliases[groups[gidx].network]]>>
  ELSE <<>>

\* What the enclosing `except Exception` handler does with an exception it
\* catches at pc.
HandledAsFailure ==
  CASE pc = "load_config" ->
         /\ log' = Say({"Failed to read config file"})
         /\ pc' = "exit"
         /\ exitCode' = {1}
         /\ UNCHANGED <<locals, retvals>>
    [] pc = "dry_run_validate" ->
         /\ log' = Say({"Failed to get floating IPs"})
         /\ pc' = "exit"
         /\ exitCode' = {1}
         /\ UNCHANGED <<locals, retvals>>
    [] pc = "fip_list" ->
         /\ log' = Say({"Failed to get floating IPs"})
         /\ retvals' = Append(retvals,
              [run |-> run, floating |-> {}, alias |-> {}, ret |-> {}])
         /\ Propagate
         /\ UNCHANGED locals
    [] pc = "fip_loop" ->
         /\ log' = Say({"Failed to assign floating IP"})
         /\ NextFip(FALSE)
         /\ UNCHANGED <<floating_ips, alias_success, groups, gidx, retvals, exitCode>>
    [] OTHER ->
         /\ log' = Say({"Failed to assign alias IPs"})
         /\ alias_success' = {FALSE}
         /\ pc' = "finish"
         /\ UNCHANGED <<floating_ips, idx, success, floating_success, groups, gidx,
                        retvals, exitCode>>

\* The user interrupts the program (SIGINT) while the step at pc runs, at any
\* point from the loading of the configuration on.  The signal arrives
\* between two calls, or during the mutating call of the step, which the
\* provider may or may not have carried out.  The history gets the call in
\* flight and a KeyboardInterrupt entry.
Interrupt ==
  /\ pc \in {"load_config", "construct", "dry_run_validate", "fip_list", "fip_loop",
             "alias", "alias_loop", "finish"}
  /\ \E during \in (IF PendingMutation = <<>> THEN {FALSE} ELSE BOOLEAN) :
     \E applied \in (IF during THEN BOOLEAN ELSE {FALSE}) :
       /\ calls' = calls
            \o (IF during /\ pc = "fip_loop" THEN LookupCalls(TRUE) ELSE <<>>)
            \o (IF during THEN PendingMutation ELSE <<>>)
            \o <<Call("KeyboardInterrupt", 0, <<>>, FALSE)>>
       /\ server_cache' = IF during /\ pc = "fip_loop" THEN ServerAfter(TRUE)
                          ELSE server_cache
       /\ fipOwner' = IF applied /\ pc = "fip_loop"
                        THEN AssignTo(fipOwner, floating_ips[idx].id, server_id)
                        ELSE fipOwner
       /\ netAliases' = IF applied /\ pc = "alias_loop"
                          THEN [netAliases EXCEPT ![groups[gidx].network] = GroupAll]
                          ELSE netAliases
       /\ IF InsideExceptException /\ ExceptExceptionCatches("KeyboardInterrupt")
            THEN HandledAsFailure
            ELSE /\ IF entry = "cli"
                      THEN /\ log' = Say({"Interrupted by user"})
                           /\ pc' = "exit"
                           /\ exitCode' = {MainExitCode("KeyboardInterrupt")}
                      ELSE /\ pc' = "raised"
                           /\ UNCHANGED <<log, exitCode>>
                 /\ UNCHANGED <<locals, retvals>>
  /\ UNCHANGED <<env, run, config, server_id, dry_run, needs_assignment, failures>>

\* One invocation of the CLI in live mode by a user who may interrupt it.
InitLiveCli == Init /\ entry = "cli" /\ ~args.dry_run

NextLiveCli ==
  \/ MainCheckArgs
  \/ LoadConfig
  \/ Construct
  \/ GetFloatingIps
  \/ FipSkip
  \/ FipAssign
  \/ AliasNone
  \/ AliasPrepare
  \/ AliasChange
  \/ ExecuteReturn
  \/ Interrupt

SpecLiveCli == InitLiveCli /\ [][NextLiveCli]_vars

\* ------------------------------------------ a second writer of alias lists
\* Another invocation of the program on this server (its own process, its
\* own server object) declares one alias address of its own.  Its alias
\* phase is taken in one step: it reads the server, groups its address and
\* writes current + new for the first group with change_alias_ips.
OtherAliasIps == <<Ip_10_0_0_77>>

OtherInvocationWrote ==
  \E i \in DOMAIN calls : calls[i].op = "other_change_alias_ips"

OtherInvocationWrites ==
  /\ pc \in {"fip_list", "fip_loop", "alias", "alias_loop"}
  /\ ~OtherInvocationWrote
  /\ LET g == GroupAliases(OtherAliasIps, ServerObject.private_net) IN
       /\ ~g.raised
       /\ g.groups # <<>>
       /\ LET network == g.groups[1].network
              current == CurrentAliases(ServerObject.private_net, network)
              all_aliases == MergeAliases(current, g.groups[1].aliases)
          IN  /\ netAliases' = [netAliases EXCEPT ![network] = all_aliases]
              /\ calls' = Append(calls,
                   [Call("other_change_alias_ips", network, all_aliases, TRUE)
                      EXCEPT !.was = netAliases[network]])
  /\ UNCHANGED <<env, fipOwner, pc, run, engine, locals, needs_assignment, log,
                 retvals, exitCode, failures>>

\* A program that calls the engine in live mode with alias addresses
\* declared, on a server with an attachment, while the other invocation runs.
InitTwoWriters ==
  /\ Init
  /\ entry = "lib"
  /\ ~args.dry_run
  /\ configFile.alias_ips # <<>>
  /\ privateNets # <<>>

NextTwoWriters ==
  \/ Construct
  \/ GetFloatingIps
  \/ FipSkip
  \/ FipAssign
  \/ AliasPrepare
  \/ AliasChange
  \/ ExecuteReturn
  \/ Rerun
  \/ OtherInvocationWrites

SpecTwoWriters == InitTwoWriters /\ [][NextTwoWriters]_vars

\* ================================================================ claims
LiveMode == ~args.dry_run
AssignCallsOf(r) == SelectSeq(calls, LAMBDA c : c.run = r /\ c.op = "assign")
AliasCallsOf(r) == SelectSeq(calls, LAMBDA c : c.run = r /\ c.op = "change_alias_ips")

\* C1: when execute_failover is run twice in succession in live mode, no
\* collaborator call fails and the first run returns success, the second
\* run issues no mutating call and returns success as well.
C1_SecondRunIdle ==
  (LiveMode /\ failures = 0) =>
    \A a, b \in Range(retvals) :
      (b.run = a.run + 1 /\ a.ret = {TRUE}) =>
        (b.ret = {TRUE} /\ MutatingCallsOf(b.run) = <<>>)

\* C2: in dry-run mode no mutating call (FloatingIP.assign,
\* servers.change_alias_ips) is ever issued, by the engine or by the CLI
\* --dry-run path, and the provider state stays what it was.
C2_DryRunNeverMutates ==
  args.dry_run =>
    /\ \A i \in DOMAIN calls : ~Mutating(calls[i])
    /\ fipOwner = initial.fipOwner
    /\ netAliases = initial.netAliases

\* C2 witness: a dry-run execute_failover has finished after reporting a
\* floating IP it would assign and aliases it would add.
C2_Witness ==
  /\ args.dry_run
  /\ pc = "returned"
  /\ Logged(run, "[DRY RUN] Would assign floating IP")
  /\ Logged(run, "[DRY RUN] Would add aliases")

\* C3: a matched floating IP that the listing shows as owned by this node
\* gets no reassignment call in that run.
C3_OwnedNotReassigned ==
  \A k \in DOMAIN floating_ips :
    floating_ips[k].server = server_id =>
      \A i \in DOMAIN calls :
        ~(calls[i].run = run /\ calls[i].op = "assign"
          /\ calls[i].id = floating_ips[k].id)

\* C3 witness: a live floating-IP phase is over in which one listed IP was
\* owned by this node and another one was reassigned.
C3_Witness ==
  /\ LiveMode
  /\ floating_success # {}
  /\ \E k \in DOMAIN floating_ips : floating_ips[k].server = server_id
  /\ \E k \in DOMAIN floating_ips :
       /\ floating_ips[k].server # server_id
       /\ \E i \in DOMAIN calls :
            calls[i].run = run /\ calls[i].op = "assign"
            /\ calls[i].id = floating_ips[k].id

\* The first three octets of an IPv4 text, as numbers.
FirstThreeOctets(t) ==
  LET p == Split(t, ".") IN <<DecValue(p[1]), DecValue(p[2]), DecValue(p[3])>>

\* Two address texts are of the same family and share the prefix: the
\* first three octets (IPv4), the first 19 characters of the canonical
\* text (IPv6).
SamePrefix(a, b) ==
  \/ IsIPv4(a) /\ IsIPv4(b) /\ FirstThreeOctets(a) = FirstThreeOctets(b)
  \/ /\ IsIPv6(a)
     /\ IsIPv6(b)
     /\ Take(CanonicalText(a), 19) = Take(CanonicalText(b), 19)

\* The declared addresses that belong to network n: those that share the
\* prefix of the server's own address on n, n being the first such network
\* of the server object the run works on.
MatchedTo(n) ==
  LET pn == The(server_cache).private_net IN
    { a \in Range(The(config).alias_ips) :
        LET hits == { k \in DOMAIN pn : SamePrefix(pn[k].ip, a) } IN
          /\ hits # {}
          /\ pn[CHOOSE k \in hits : \A q \in hits : k <= q].network = n }

\* The alias list of network n in the server object the run works on.
AliasesRead(n) ==
  LET pn == The(server_cache).private_net IN
    UNION { Range(pn[k].alias_ips) : k \in { q \in DOMAIN pn : pn[q].network = n } }

\* C4: every alias list passed to change_alias_ips holds no duplicates, is
\* as a set the union of the subnet's alias list as the run read it and
\* the declared addresses matched to that subnet, contains every alias the
\* subnet held when the call was made, and no run calls twice for a subnet.
C4_AliasListIsUnion ==
  \A i \in DOMAIN calls :
    calls[i].op = "change_alias_ips" =>
      /\ NoDuplicates(calls[i].arg)
      /\ Range(calls[i].was) \subseteq Range(calls[i].arg)
      /\ \A j \in DOMAIN calls :
           (j # i /\ calls[j].op = "change_alias_ips" /\ calls[j].run = calls[i].run)
             => calls[j].id # calls[i].id
      /\ calls[i].run = run =>
           /\ server_cache # {}
           /\ Range(calls[i].arg) = AliasesRead(calls[i].id) \cup MatchedTo(calls[i].id)

\* C4 witness: a successful call added a declared address to a subnet that
\* already held another alias.
C4_Witness ==
  \E i \in DOMAIN calls :
    /\ calls[i].op = "change_alias_ips"
    /\ calls[i].ok
    /\ calls[i].was # <<>>
    /\ Range(calls[i].arg) # Range(calls[i].was)
    /\ netAliases[calls[i].id] = calls[i].arg

\* The listed floating IPs the loop has dealt with so far.
Processed == IF pc = "fip_loop" THEN idx - 1 ELSE Len(floating_ips)
ForeignIds ==
  LET done == SubSeq(floating_ips, 1, Processed)
      foreign == SelectSeq(done, LAMBDA f : f.server # server_id)
  IN  [k \in DOMAIN foreign |-> foreign[k].id]
LookupFailed(r) ==
  \E i \in DOMAIN calls : calls[i].run = r /\ calls[i].op = "get_by_id" /\ ~calls[i].ok

\* C5: in live mode, while no server lookup fails, the reassignment calls
\* of the run are exactly one per listed floating IP not owned by this
\* node, in list order, whether or not an earlier call failed.
C5_EachForeignIpAttemptedOnce ==
  (LiveMode /\ server_id # {} /\ ~LookupFailed(run)) =>
    LET a == AssignCallsOf(run) IN [k \in DOMAIN a |-> a[k].id] = ForeignIds

\* C5 witness: a live floating-IP phase is over in which the first
\* reassignment failed and a later IP was still attempted.
C5_Witness ==
  /\ LiveMode
  /\ floating_success # {}
  /\ LET a == AssignCallsOf(run) IN
       /\ Len(a) >= 2
       /\ ~a[1].ok
       /\ a[2].ok

\* C6: when assign_all_floating_ips returns after a successful listing, it
\* returns true exactly if no attempted reassignment of the run failed
\* (neither its server lookup nor its assign call); skipped IPs do not count.
C6_PhaseTrueIffAllAttemptsSucceeded ==
  (pc = "alias" /\ floating_success # {}) =>
    (floating_success = {TRUE} <=>
       \A i \in DOMAIN calls :
         (calls[i].run = run /\ calls[i].op \in {"assign", "get_by_id"}) => calls[i].ok)

\* C6 witness: two IPs listed, one owned by this node and one by another
\* node; the phase returned true after exactly one reassignment call.
C6_Witness ==
  /\ LiveMode
  /\ pc = "alias"
  /\ floating_success = {TRUE}
  /\ Len(floating_ips) = 2
  /\ \E k \in DOMAIN floating_ips : floating_ips[k].server = server_id
  /\ \E k \in DOMAIN floating_ips : floating_ips[k].server = {67890}
  /\ Len(AssignCallsOf(run)) = 1

\* C7: in live mode, with every call succeeding, a single declared alias
\* written with a prefix length whose first three octets are those of the
\* only membership's own address, and an empty existing alias list, the
\* alias phase returns true after one change_alias_ips call carrying
\* exactly that address.
C7_PrefixedAliasApplied ==
  (/\ alias_success # {}
   /\ LiveMode
   /\ failures = 0
   /\ run = 1
   /\ Len(The(config).alias_ips) = 1
   /\ "/" \in Range(The(config).alias_ips[1])
   /\ Len(privateNets) = 1
   /\ Prefix24(privateNets[1].ip) = Prefix24(The(config).alias_ips[1])
   /\ initial.netAliases[privateNets[1].network] = <<>>)
  => /\ alias_success = {TRUE}
     /\ Len(AliasCallsOf(run)) = 1
     /\ AliasCallsOf(run)[1].id = privateNets[1].network
     /\ AliasCallsOf(run)[1].arg = The(config).alias_ips

\* C8: with an alias declared and no private network attached, the alias
\* phase returns false without a change_alias_ips call, and logs the
\* 'no private networks' error once it holds the server object.
C8_NoPrivateNetworkFails ==
  (/\ alias_success # {}
   /\ The(config).alias_ips # <<>>
   /\ privateNets = <<>>)
  => /\ alias_success = {FALSE}
     /\ AliasCallsOf(run) = <<>>
     /\ server_cache # {} => Logged(run, "No private networks attached to server")

\* C8 witness: a live alias phase has failed on a server without private
\* networks and logged the error.
C8_Witness ==
  /\ LiveMode
  /\ alias_success = {FALSE}
  /\ The(config).alias_ips # <<>>
  /\ privateNets = <<>>
  /\ server_cache # {}
  /\ Logged(run, "No private networks attached to server")
  /\ pc = "finish"

\* C9: the CLI given --fake-server-id without --dry-run stops with exit
\* code 1 and the usage message, before the configuration is loaded, the
\* engine constructed or a collaborator called.
C9_FakeIdRequiresDryRun ==
  (entry = "cli" /\ args.fake_server_id # {} /\ ~args.dry_run /\ pc # "main") =>
    /\ pc = "exit"
    /\ exitCode = {1}
    /\ Logged(run, "Error: --fake-server-id can only be used with --dry-run")
    /\ CallsOf(run) = <<>>

\* C10: within a run no alias call precedes a floating-IP call, and every
\* execute_failover that has ended ran both phases and returned the
\* logical AND of their outcomes.
C10_BothPhasesThenAnd ==
  /\ \A i, j \in DOMAIN calls :
       (i < j /\ calls[i].run = calls[j].run)
         => ~(calls[i].op = "change_alias_ips" /\ calls[j].op = "assign")
  /\ \A k \in DOMAIN retvals :
       /\ retvals[k].floating # {}
       /\ retvals[k].alias # {}
       /\ retvals[k].ret = {The(retvals[k].floating) /\ The(retvals[k].alias)}

\* The floating-IP listing query of run r failed.
ListingFailed(r) ==
  \E i \in DOMAIN calls : calls[i].run = r /\ calls[i].op = "get_all" /\ ~calls[i].ok

\* C11: a failure of the floating-IP listing query does not leave
\* execute_failover as an exception: the floating-IP phase returns false,
\* the alias phase still runs and returns a boolean.
C11_ListingFailureFolded ==
  /\ (pc = "raised" /\ server_id # {}) => ~ListingFailed(run)
  /\ \A k \in DOMAIN retvals :
       ListingFailed(retvals[k].run) =>
         (retvals[k].floating = {FALSE} /\ retvals[k].alias # {})

\* Calls of run r on the Cloud API (queries and mutations).
CloudApiCallsOf(r) ==
  SelectSeq(calls, LAMBDA c : c.run = r /\ c.op \in {"get_all", "get_by_id", "assign",
                                                    "change_alias_ips"})

\* The metadata service of run r timed out, failed or answered a body that
\* is not a number.
MetadataFailed(r) ==
  \E i \in DOMAIN calls :
    /\ calls[i].run = r
    /\ calls[i].op = "get_server_id"
    /\ calls[i].arg \in { <<"timeout">>, <<"http_error">>, <<"non_numeric">> }

\* C12: a run whose configuration file is missing, empty, invalid YAML,
\* without token or with an invalid log_level, or whose metadata lookup
\* times out, fails or answers a non-numeric body, ends without any Cloud
\* API call and without an engine identity; the CLI exits with code 1.
C12_FatalErrorsAbortBeforeApi ==
  /\ (entry = "cli" /\ configFile \in BadFiles /\ pc \notin {"main", "load_config"}) =>
       /\ pc = "exit"
       /\ exitCode = {1}
       /\ server_id = {}
       /\ CloudApiCallsOf(run) = <<>>
       /\ \A i \in DOMAIN calls : calls[i].op # "get_server_id"
       /\ fipOwner = initial.fipOwner
       /\ netAliases = initial.netAliases
  /\ MetadataFailed(run) =>
       /\ IF entry = "cli" THEN pc = "exit" /\ exitCode = {1} ELSE pc = "raised"
       /\ server_id = {}
       /\ CloudApiCallsOf(run) = <<>>
       /\ run = 1 => (fipOwner = initial.fipOwner /\ netAliases = initial.netAliases)

\* C12 witness: the CLI has exited with code 1 on a file without token,
\* having called nothing but the configuration loader.
C12_Witness ==
  /\ entry = "cli"
  /\ pc = "exit"
  /\ exitCode = {1}
  /\ configFile.token = {}
  /\ Logged(run, "Required field missing in config")
  /\ Len(CallsOf(run)) = 1
  /\ CallsOf(run)[1].op = "Config"

\* C13: once a lookup of this node's server object has failed, the run
\* attempts no mutating call any more.
C13_LookupFailureAborts ==
  \A i, j \in DOMAIN calls :
    (/\ i < j
     /\ calls[i].run = calls[j].run
     /\ calls[i].op = "get_by_id"
     /\ ~calls[i].ok)
    => ~Mutating(calls[j])

Interrupted(r) ==
  \E i \in DOMAIN calls : calls[i].run = r /\ calls[i].op = "KeyboardInterrupt"
ReturnedTrue(r) ==
  \E k \in DOMAIN retvals : retvals[k].run = r /\ retvals[k].ret = {TRUE}

\* C14: when the live CLI has ended, its exit code is 0 exactly if
\* execute_failover returned true, 130 exactly if the user interrupted it
\* (from the loading of the configuration on), and 1 otherwise; an
\* interrupt, also one that arrives during a mutating call, ends the
\* program at once: no call follows it, execute_failover does not return,
\* and the exit code is 130.
C14_ExitCodes ==
  /\ (entry = "cli" /\ LiveMode /\ pc = "exit") =>
       /\ exitCode \in {{0}, {1}, {130}}
       /\ exitCode = {0} <=> ReturnedTrue(run)
       /\ exitCode = {130} <=> Interrupted(run)
  /\ \A i \in DOMAIN calls :
       calls[i].op = "KeyboardInterrupt" =>
         /\ \A j \in DOMAIN calls : calls[j].run = calls[i].run => j <= i
         /\ \A k \in DOMAIN retvals : retvals[k].run # calls[i].run
         /\ calls[i].run = run => (pc = "exit" /\ exitCode = {130})

\* C14 witness: the live CLI exited with 130 after an interrupt that
\* arrived during the second FloatingIP.assign call, which the provider
\* carried out; the first one had succeeded.
C14_Witness ==
  /\ entry = "cli"
  /\ LiveMode
  /\ pc = "exit"
  /\ exitCode = {130}
  /\ Len(calls) >= 3
  /\ calls[Len(calls)].op = "KeyboardInterrupt"
  /\ calls[Len(calls) - 1].op = "assign"
  /\ fipOwner[calls[Len(calls) - 1].id] = server_id
  /\ \E i \in DOMAIN calls : calls[i].op = "assign" /\ calls[i].ok

\* The declared addresses that share the prefix of more than one of the
\* server's memberships.
AmbiguousAliases ==
  { a \in Range(The(config).alias_ips) :
      Cardinality({ k \in DOMAIN privateNets : SamePrefix(privateNets[k].ip, a) }) > 1 }

\* C15: a declared address that matches more than one membership is in no
\* subnet group, hence in no change_alias_ips call on account of the
\* declaration, and the run that grouped the aliases has logged it.
C15_AmbiguousAliasNotApplied ==
  (pc = "alias_loop" /\ config # {}) =>
    \A a \in AmbiguousAliases :
      /\ \A g \in DOMAIN groups : a \notin Range(groups[g].aliases)
      /\ Logged(run, "Could not match alias IPs to networks")

\* C16: in live mode no change_alias_ips call is issued for a subnet whose
\* merged alias list adds nothing to the aliases the subnet already holds.
C16_NoCallWhenNothingToAdd ==
  LiveMode =>
    \A i \in DOMAIN calls :
      calls[i].op = "change_alias_ips" => Range(calls[i].arg) # Range(calls[i].was)

\* C17: when a live alias phase with two or more subnet groups has ended,
\* it has attempted the mutating call of every group, whether or not one
\* of them failed, and it has returned false if one failed.
C17_EveryGroupAttempted ==
  (LiveMode /\ alias_success # {} /\ Len(groups) >= 2) =>
    /\ \A g \in DOMAIN groups :
         \E i \in DOMAIN calls :
           /\ calls[i].run = run
           /\ calls[i].op = "change_alias_ips"
           /\ calls[i].id = groups[g].network
    /\ (\E i \in DOMAIN calls :
          calls[i].run = run /\ calls[i].op = "change_alias_ips" /\ ~calls[i].ok)
         => alias_success = {FALSE}

\* C18: in a live run without failing calls, when one declared address
\* does not parse and another one matches a membership, the unparseable
\* one is left out and the matching ones are still applied: each of them
\* is carried by a change_alias_ips call and the phase returns true.
C18_UnparseableAliasSkipped ==
  (/\ LiveMode
   /\ failures = 0
   /\ alias_success # {}
   /\ \E a \in Range(The(config).alias_ips) : IpVersion(a) = 0
   /\ \E a \in Range(The(config).alias_ips) :
        \E k \in DOMAIN privateNets : SamePrefix(privateNets[k].ip, a))
  => /\ alias_success = {TRUE}
     /\ \A a \in Range(The(config).alias_ips) :
          (\E k \in DOMAIN privateNets : SamePrefix(privateNets[k].ip, a)) =>
            \E i \in DOMAIN calls :
              /\ calls[i].run = run
              /\ calls[i].op = "change_alias_ips"
              /\ a \in Range(calls[i].arg)

\* The declared addresses that share the prefix of one of the server's
\* memberships.
MatchingAliases ==
  { a \in Range(The(config).alias_ips) :
      \E k \in DOMAIN privateNets : SamePrefix(privateNets[k].ip, a) }

\* C19: on a server with at least one membership and with declared
\* addresses that all parse, in the alias loop and when the alias phase
\* has just returned: the phase has failed for lack of a match exactly if
\* no declared address matches a membership; unmatched addresses are
\* logged as a warning, and when some address matched the phase returns
\* false only if a mutating call failed.
C19_FailsOnlyIfNothingMatched ==
  (/\ (pc = "alias_loop" \/ (pc = "finish" /\ alias_success # {}))
   /\ server_cache # {}
   /\ privateNets # <<>>
   /\ The(config).alias_ips # <<>>
   /\ \A a \in Range(The(config).alias_ips) : IpVersion(a) # 0)
  => /\ Logged(run, "No alias IPs could be matched") <=> MatchingAliases = {}
     /\ MatchingAliases = {} => (alias_success = {FALSE} /\ AliasCallsOf(run) = <<>>)
     /\ Range(The(config).alias_ips) # MatchingAliases =>
          Logged(run, "Could not match alias IPs to networks")
     /\ (MatchingAliases # {} /\ alias_success = {FALSE}) =>
          \E i \in DOMAIN calls :
            calls[i].run = run /\ calls[i].op = "change_alias_ips" /\ ~calls[i].ok

\* C19 witness: one declared address matched and one did not; the warning
\* was logged, the matched address was sent and the phase returned true.
C19_Witness ==
  /\ LiveMode
  /\ pc = "finish"
  /\ alias_success = {TRUE}
  /\ MatchingAliases # {}
  /\ Range(The(config).alias_ips) # MatchingAliases
  /\ \A a \in Range(The(config).alias_ips) : IpVersion(a) # 0
  /\ Logged(run, "Could not match alias IPs to networks")
  /\ ~Logged(run, "No alias IPs could be matched")
  /\ \E i \in DOMAIN calls :
       /\ calls[i].run = run
       /\ calls[i].op = "change_alias_ips"
       /\ calls[i].ok
       /\ MatchingAliases \subseteq Range(calls[i].arg)

\* The position of the first membership, in enumeration order, that shares
\* the prefix of address a; 0 if there is none.
FirstMatching(a) ==
  LET hits == { k \in DOMAIN privateNets : SamePrefix(privateNets[k].ip, a) } IN
    IF hits = {} THEN 0 ELSE CHOOSE k \in hits : \A q \in hits : k <= q

\* How often address a occurs in the subnet groups.
RECURSIVE Occurrences(_, _)
Occurrences(a, g) ==
  IF g = 0 THEN 0
  ELSE Cardinality({ i \in DOMAIN groups[g].aliases : groups[g].aliases[i] = a })
         + Occurrences(a, g - 1)

C21_EmptyDeclarationIsNoOp ==
  config # {} =>
    /\ (The(config).floating_ip_labels = {} /\ floating_success # {}) =>
         /\ floating_success = {TRUE}
         /\ Logged(run, "No floating_ip_labels configured")
         /\ \A i \in DOMAIN calls :
              calls[i].run = run => calls[i].op \notin {"get_all", "assign"}
         /\ fipOwner = initial.fipOwner
         /\ pc = "alias" => CloudApiCallsOf(run) = <<>>
    /\ (The(config).alias_ips = <<>> /\ alias_success # {}) =>
         /\ alias_success = {TRUE}
         /\ AliasCallsOf(run) = <<>>
         /\ netAliases = initial.netAliases
         /\ \A i \in DOMAIN calls :
              (calls[i].run = run /\ calls[i].op = "get_by_id" /\ calls[i].ok) =>
                (i < Len(calls) /\ calls[i + 1].op = "assign")
         /\ The(config).floating_ip_labels = {} =>
              (CloudApiCallsOf(run) = <<>> /\ server_cache = {})

\* Witness: a live run with neither labels nor aliases declared has finished
\* both phases with true and issued no Cloud API call.
C21_Witness ==
  /\ LiveMode
  /\ pc = "finish"
  /\ config # {}
  /\ The(config).floating_ip_labels = {}
  /\ The(config).alias_ips = <<>>
  /\ floating_success = {TRUE}
  /\ alias_success = {TRUE}
  /\ Logged(run, "No floating_ip_labels configured")
  /\ Logged(run, "No alias IPs configured")
  /\ CloudApiCallsOf(run) = <<>>

\* The floating IPs the configured selector matches.
MatchedIds ==
  { id \in FipIds : The(config).floating_ip_labels \subseteq FipLabels(id) }

\* Every provider call of run r succeeded.
AllCallsSucceeded(r) == \A i \in DOMAIN calls : calls[i].run = r => calls[i].ok

\* The floating IP is owned by the server the engine runs on.
OwnedByThisNode(owner, id) == owner[id] # {} /\ The(owner[id]) \in MetadataIds

\* C22: when a live floating-IP phase has returned and every provider call
\* of the run succeeded, the listing is the matched set and every floating
\* IP of it is owned by this node, after exactly one assign call of the run
\* if the listing showed another owner or none and after no call if it
\* showed this node.  A floating IP that was owned by this node before the
\* first run, or that a successful assign call has claimed, is owned by this
\* node in every later state of every later run.
C22_OwnedAfterPhaseAndFixedPoint ==
  /\ (LiveMode /\ floating_success # {} /\ AllCallsSucceeded(run)) =>
       /\ floating_success = {TRUE}
       /\ The(config).floating_ip_labels # {} =>
            { floating_ips[k].id : k \in DOMAIN floating_ips } = MatchedIds
       /\ \A k \in DOMAIN floating_ips :
            LET id == floating_ips[k].id IN
              /\ fipOwner[id] = server_id
              /\ OwnedByThisNode(fipOwner, id)
              /\ Len(SelectSeq(AssignCallsOf(run), LAMBDA c : c.id = id)) =
                   IF floating_ips[k].server = server_id THEN 0 ELSE 1
  /\ \A id \in FipIds :
       (\/ OwnedByThisNode(initial.fipOwner, id)
        \/ \E i \in DOMAIN calls :
             calls[i].op = "assign" /\ calls[i].id = id /\ calls[i].ok) =>
         OwnedByThisNode(fipOwner, id)

\* Witness: the first run claimed one floating IP from another server and
\* one that had no owner, with one call each; the second run has finished
\* its floating-IP phase with no assign call and both are still owned by
\* this node.
C22_Witness ==
  /\ LiveMode
  /\ run = 2
  /\ floating_success = {TRUE}
  /\ AllCallsSucceeded(1) /\ AllCallsSucceeded(2)
  /\ Len(floating_ips) = 2
  /\ initial.fipOwner[floating_ips[1].id] = {67890}
  /\ initial.fipOwner[floating_ips[2].id] = {}
  /\ \A k \in {1, 2} :
       /\ OwnedByThisNode(fipOwner, floating_ips[k].id)
       /\ Len(SelectSeq(AssignCallsOf(1), LAMBDA c : c.id = floating_ips[k].id)) = 1
  /\ AssignCallsOf(2) = <<>>

\* The last call of run r is a failed call of operation op.
LastCallFailed(r, op) ==
  LET cs == CallsOf(r) IN
    cs # <<>> /\ cs[Len(cs)].op = op /\ ~cs[Len(cs)].ok

\* Some declared alias address is not an IP address.
SomeUnparseable == \E i \in DOMAIN The(config).alias_ips :
                     IpVersion(The(config).alias_ips[i]) = 0

\* The alias phase of the current run has ended on an exception: its server
\* lookup failed, or ip_address() rejected a declared address while the
\* memberships of the server were compared, or its change_alias_ips call
\* failed.
AliasPhaseRaised ==
  /\ config # {}
  /\ The(config).alias_ips # <<>>
  /\ alias_success # {}
  /\ \/ LastCallFailed(run, "get_by_id")
     \/ LastCallFailed(run, "change_alias_ips")
     \/ (server_cache # {} /\ privateNets # <<>> /\ SomeUnparseable)

\* C23: an exception raised inside the alias phase is caught.  When the
\* phase has ended on one, assign_alias_ips has returned false, the error
\* "Failed to assign alias IPs" is logged for the run, the exception has not
\* left the engine, and once execute_failover returns it returns false (exit
\* code 1 from the command line).  No exception leaves the engine once the
\* alias phase has started.
C23_AliasPhaseExceptionCaught ==
  /\ AliasPhaseRaised =>
       /\ alias_success = {FALSE}
       /\ Logged(run, "Failed to assign alias IPs")
       /\ pc \in {"finish", "returned", "exit"}
       /\ \A k \in DOMAIN retvals :
            retvals[k].run = run =>
              (retvals[k].alias = {FALSE} /\ retvals[k].ret = {FALSE})
       /\ pc = "exit" => exitCode = {1}
  /\ pc = "raised" => alias_success = {}

\* Witness: the first run's alias phase ended on a failed server lookup and
\* the second run's on an address ip_address() rejects; both runs returned
\* false.
C23_Witness ==
  /\ run = 2
  /\ pc = "returned"
  /\ AliasPhaseRaised
  /\ ~LastCallFailed(2, "get_by_id")
  /\ SomeUnparseable
  /\ LastCallFailed(1, "get_by_id")
  /\ Len(retvals) = 2
  /\ \A k \in {1, 2} : retvals[k].alias = {FALSE} /\ retvals[k].ret = {FALSE}
  /\ Logged(1, "Failed to assign alias IPs")
  /\ Logged(2, "Failed to assign alias IPs")

\* C24: no interleaving of the run's alias phase with another invocation's
\* write loses an alias.  Once the alias phase of the run has returned true
\* and the other invocation has written, the alias list of the subnet holds
\* what the other invocation wrote and what the run wrote.
C24_BothWritersAliasesKept ==
  (pc \in {"finish", "returned"} /\ alias_success = {TRUE}) =>
    \A i \in DOMAIN calls :
      calls[i].op = "other_change_alias_ips" =>
        /\ Range(calls[i].arg) \subseteq Range(netAliases[calls[i].id])
        /\ \A j \in DOMAIN calls :
             (/\ calls[j].op = "change_alias_ips"
              /\ calls[j].run = run
              /\ calls[j].id = calls[i].id
              /\ calls[j].ok) =>
               Range(calls[j].arg) \subseteq Range(netAliases[calls[i].id])

\* The matched floating IPs that, with the owners given, are not owned by
\* server sid.
PendingIds(owner, sid) == { id \in MatchedIds : owner[id] # sid }

\* The owners the listing of the current run showed.
ListedOwner == [id \in { floating_ips[k].id : k \in DOMAIN floating_ips } |->
                  LET k == CHOOSE q \in DOMAIN floating_ips : floating_ips[q].id = id
                  IN  floating_ips[k].server]

\* C25: the dry-run report and the live loop pick the same floating IPs.
\* The report of a dry-run invocation flags exactly the matched floating
\* IPs that the provider does not show on the server id in use (assigned
\* elsewhere or unassigned), each once, so the pending count is their
\* number.  A live floating-IP phase, while no server lookup fails, issues
\* its assign calls on exactly the listed floating IPs that the listing did
\* not show on the server id, one call each; in the first run the listing
\* is the provider state before the run, the one a dry run reports on.
C25_ReportEqualsLiveCalls ==
  /\ (needs_assignment # {} /\ The(config).floating_ip_labels # {}) =>
       LET need == The(needs_assignment) IN
         /\ NoDuplicates(need)
         /\ Range(need) = PendingIds(fipOwner, server_id)
         /\ Len(need) = Cardinality(PendingIds(initial.fipOwner, server_id))
  /\ (/\ LiveMode
      /\ floating_success # {}
      /\ The(config).floating_ip_labels # {}
      /\ ~LookupFailed(run)) =>
       LET a == AssignCallsOf(run)
           ids == [k \in DOMAIN a |-> a[k].id]
       IN  /\ NoDuplicates(ids)
           /\ DOMAIN ListedOwner = MatchedIds
           /\ Range(ids) = { id \in MatchedIds : ListedOwner[id] # server_id }
           /\ run = 1 =>
                (/\ Range(ids) = PendingIds(initial.fipOwner, server_id)
                 /\ Len(a) = Cardinality(PendingIds(initial.fipOwner, server_id)))

\* Witness: a dry-run report on two matched floating IPs flags the
\* unassigned one and not the one assigned to this server.
C25_Witness ==
  /\ args.dry_run
  /\ pc = "exit"
  /\ exitCode = {0}
  /\ needs_assignment # {}
  /\ Len(The(needs_assignment)) = 1
  /\ Cardinality(MatchedIds) = 2
  /\ fipOwner[The(needs_assignment)[1]] = {}
  /\ \E id \in MatchedIds : fipOwner[id] = server_id
  /\ Logged(run, "floating IP(s) need to be assigned")

====
